---- MODULE Spec2Model ----
(***************************************************************************)
(* The data loader of arcr-item-search (lib/dataLoader.ts: fetchItems,     *)
(* fetchHideoutModules, fetchProjects, fetchQuests, loadAllData) together  *)
(* with the environment its test-suite drives it in: the mocked            *)
(* globalThis.fetch, the clock, sessionStorage and the console; and the    *)
(* search utilities (lib/searchUtils.ts: buildReferenceCount,              *)
(* filterItemsByName, findItemsRequiredBySource) and applyFilters of       *)
(* lib/filterUtils.ts applied to the state App.svelte keeps, and the       *)
(* onMount callback of App.svelte that loads the data.                     *)
(***************************************************************************)
EXTENDS Integers, Sequences, FiniteSets, TLC

\* ------------------------------------------------------------------ bounds
\* Top-level calls a run makes (test code awaits one call, then makes the next).
MaxCalls == 2
\* Clock advances a run makes.
MaxTicks == 1

\* --------------------------------------------------------------- constants
\* Cache lifetime the test-suite expects, in ms (5 minutes).
CACHE_DURATION == 300000
\* Network attempts the test-suite expects of one retried fetch.
MAX_RETRIES == 3
\* First backoff delay the test-suite expects, in ms.
RETRY_DELAY == 1000
\* The clock advance the test-suite uses to outlive the cache, in ms.
SIX_MINUTES == 360000

\* ---------------------------------------------------------------- datasets
Datasets == {"items", "hideoutModules", "projects", "quests"}

\* The noun each fetcher puts in its error message.
Noun(d) ==
  CASE d = "items" -> "items"
    [] d = "hideoutModules" -> "hideout modules"
    [] d = "projects" -> "projects"
    [] d = "quests" -> "quests"

\* ----------------------------------------------------------------- records
\* The record shapes the test-suite serves: a record is kept abstract but for
\* the fields the tests vary: its id, whether name is a localized object, and
\* the state of a quest's requiredItemIds.
RecA == [id |-> "item-1", name |-> "localized", requiredItemIds |-> "absent"]
RecB == [id |-> "item-2", name |-> "localized", requiredItemIds |-> "absent"]
BadName == [id |-> "invalid", name |-> "string", requiredItemIds |-> "absent"]
NoFields == [id |-> "absent", name |-> "absent", requiredItemIds |-> "absent"]
BadReq == [id |-> "quest-1", name |-> "localized", requiredItemIds |-> "malformed"]

\* A response body once parsed: a JSON array, a JSON object, or no JSON at all.
ArrayBody(rs) == [kind |-> "array", records |-> rs]
ObjectBody == [kind |-> "object", records |-> <<>>]
NotJson == [kind |-> "notJson", records |-> <<>>]
NoBody == [kind |-> "none", records |-> <<>>]

\* The payloads the test-suite's mocked fetch serves, and a body that does not
\* parse.
Bodies ==
  { ArrayBody(<<RecA>>),
    ArrayBody(<<RecA, BadName, RecB>>),
    ArrayBody(<<BadName, NoFields>>),
    ArrayBody(<<BadReq>>),
    ArrayBody(<<>>),
    ObjectBody,
    NotJson }

\* ---------------------------------------------------------------- responses
\* What the mocked fetch settles with: an HTTP response, or a rejection
\* (transport failure).
StatusText(s) ==
  CASE s = 200 -> "OK"
    [] s = 404 -> "Not Found"
    [] s = 500 -> "Internal Server Error"

Response(s, b) == [kind |-> "response", status |-> s, statusText |-> StatusText(s), body |-> b]
Rejection == [kind |-> "reject", status |-> 0, statusText |-> "", body |-> NoBody]
NoResponse == [kind |-> "none", status |-> 0, statusText |-> "", body |-> NoBody]

Responses ==
  {Response(200, b) : b \in Bodies} \cup {Response(404, NoBody), Response(500, NoBody), Rejection}

\* Response.ok: the status is in the range 200-299.
Ok(r) == r.status >= 200 /\ r.status <= 299

\* ----------------------------------------------------------------- outcomes
NoError == [kind |-> "none", noun |-> "", statusText |-> ""]
\* new Error(`Failed to fetch ${noun}: ${response.statusText}`)
FetchError(d, r) == [kind |-> "Failed to fetch", noun |-> Noun(d), statusText |-> r.statusText]
\* the rejection of fetch() itself, passed through by the await
NetworkError == [kind |-> "TypeError", noun |-> "", statusText |-> ""]
\* the rejection of response.json() on a body that is no JSON
SyntaxError == [kind |-> "SyntaxError", noun |-> "", statusText |-> ""]

Pending == [state |-> "pending", value |-> NoBody, error |-> NoError]
Fulfilled(b) == [state |-> "fulfilled", value |-> b, error |-> NoError]
Rejected(e) == [state |-> "rejected", value |-> NoBody, error |-> e]

\* What a caller last got for a dataset, and when.
NoEntry == [present |-> FALSE, at |-> 0, value |-> NoBody]
Entry(t, b) == [present |-> TRUE, at |-> t, value |-> b]

\* The fetchers loadAllData hands to Promise.all, in order.
LoadOrder == <<"items", "hideoutModules", "projects", "quests">>
\* One slot per fetcher invocation that can be in flight at once.
Slots == 1..Len(LoadOrder)

VARIABLES
  pc,            \* per slot, the invocation's position: idle, awaitFetch, awaitJson, done
  dataset,       \* per slot, the dataset the invocation fetches
  response,      \* per slot, the response the invocation holds
  promise,       \* per slot, the promise the invocation returned
  calledAt,      \* per slot, the time of the invocation
  attempts,      \* per slot, the times at which the invocation called fetch
  seen,          \* per slot, what the invocation's fetch calls settled with
  prior,         \* per slot, what the caller last got for the dataset before the invocation
  loadAll,       \* the promise loadAllData returned
  fetchCalls,    \* calls of the mocked fetch, per dataset
  lastFetched,   \* per dataset, the last fulfilled result and when it arrived
  ncalls,        \* top-level calls made
  now,           \* the clock, ms
  ticks,         \* clock advances made
  storageFault,  \* the sessionStorage method the environment makes throw
  store,         \* the entries sessionStorage holds, per dataset
  console,       \* console.warn / console.error calls
  searchQuery,     \* App.svelte: the text of the search box
  items,           \* App.svelte: the items to search
  hideoutModules,  \* App.svelte: the hideout modules
  projects,        \* App.svelte: the projects
  quests,          \* App.svelte: the quests
  referenceCounts, \* App.svelte: what buildReferenceCount returned
  filteredItems,   \* App.svelte: what filterItemsByName returned
  itemIds,         \* what findItemsRequiredBySource returned
  filters,         \* the rarities and types selected
  result,          \* what applyFilters returned
  called,          \* the utilities applied so far
  loading,         \* App.svelte: whether the load is under way
  error,           \* App.svelte: the message of the error caught, if any
  onMount          \* App.svelte: the position of the onMount callback

loaderVars == <<pc, dataset, response, promise, calledAt, attempts, seen, prior, loadAll,
                fetchCalls, lastFetched, ncalls, now, ticks, storageFault, store,
                console>>

\* loading, error and the callback that sets them.
mountVars == <<loading, error, onMount>>

appVars == <<searchQuery, items, hideoutModules, projects, quests, referenceCounts,
             filteredItems, itemIds, filters, result, called, mountVars>>

vars == <<loaderVars, appVars>>

slotVars == <<pc, dataset, response, promise, calledAt, attempts, seen, prior>>

\* The clock advances the test-suite makes: a backoff delay, the cache
\* lifetime, and six minutes.
TickSteps == {RETRY_DELAY, CACHE_DURATION, SIX_MINUTES}

NotStarted == [state |-> "none", value |-> NoBody, error |-> NoError]

\* What a call of a search utility ends with: the value it returns, or the
\* error it throws.
Returned(v) == [threw |-> "none", value |-> v]
Threw(e) == [threw |-> e, value |-> <<>>]

\* No utility outside App.svelte has been applied, no rarity and no type is
\* selected.
UtilsInit ==
  /\ itemIds = {}
  /\ filters = [rarities |-> <<>>, types |-> <<>>]
  /\ result = <<>>

\* The callback has run to its end with the data loaded.
Mounted ==
  /\ loading = FALSE
  /\ error = NoError
  /\ onMount = "done"

\* App.svelte before any data has arrived: empty datasets, an empty search
\* box, an empty reference map, the reactive filteredItems of no items,
\* loading true and error null, onMount not yet run.
AppInit ==
  /\ searchQuery = <<>>
  /\ items = <<>>
  /\ hideoutModules = <<>>
  /\ projects = <<>>
  /\ quests = <<>>
  /\ referenceCounts = Returned(<<>>)
  /\ filteredItems = Returned(<<>>)
  /\ UtilsInit
  /\ called = {}
  /\ loading = TRUE
  /\ error = NoError
  /\ onMount = "idle"

\* The loader before the first call, with sessionStorage throwing as faults
\* allow.
LoaderInit(faults) ==
  /\ pc = [i \in Slots |-> "idle"]
  /\ dataset = [i \in Slots |-> LoadOrder[i]]
  /\ response = [i \in Slots |-> NoResponse]
  /\ promise = [i \in Slots |-> NotStarted]
  /\ calledAt = [i \in Slots |-> 0]
  /\ attempts = [i \in Slots |-> <<>>]
  /\ seen = [i \in Slots |-> <<>>]
  /\ prior = [i \in Slots |-> NoEntry]
  /\ loadAll = NotStarted
  /\ fetchCalls = [d \in Datasets |-> 0]
  /\ lastFetched = [d \in Datasets |-> NoEntry]
  /\ ncalls = 0
  /\ now = 0
  /\ ticks = 0
  /\ storageFault \in faults
  /\ store = [d \in Datasets |-> NoEntry]
  /\ console = <<>>

\* The state before the first call, with sessionStorage throwing as faults allow.
InitWith(faults) ==
  /\ LoaderInit(faults)
  /\ AppInit

\* sessionStorage works.
Init == InitWith({"none"})

\* No invocation is in flight: the caller's await has returned.
Quiescent == \A i \in Slots : pc[i] \in {"idle", "done"}

\* The slots a call of started fetchers leaves: the started ones run up to their
\* first await, fetch(`${BASE_URL}/<dataset>.json`), the others are dropped.
Start(started, ds) ==
  /\ pc' = [i \in Slots |-> IF i \in started THEN "awaitFetch" ELSE "idle"]
  /\ dataset' = [i \in Slots |-> IF i \in started THEN ds[i] ELSE dataset[i]]
  /\ response' = [i \in Slots |-> NoResponse]
  /\ promise' = [i \in Slots |-> IF i \in started THEN Pending ELSE NotStarted]
  /\ calledAt' = [i \in Slots |-> IF i \in started THEN now ELSE 0]
  /\ attempts' = [i \in Slots |-> IF i \in started THEN <<now>> ELSE <<>>]
  /\ seen' = [i \in Slots |-> <<>>]
  /\ prior' = [i \in Slots |-> IF i \in started THEN lastFetched[ds[i]] ELSE NoEntry]
  /\ fetchCalls' = [d \in Datasets |->
                      fetchCalls[d] + Cardinality({i \in started : ds[i] = d})]

\* A caller invokes fetchItems, fetchHideoutModules, fetchProjects or
\* fetchQuests and awaits it.
CallFetch(d) ==
  /\ Quiescent
  /\ ncalls < MaxCalls
  /\ ncalls' = ncalls + 1
  /\ Start({1}, [i \in Slots |-> d])
  /\ loadAll' = NotStarted
  /\ UNCHANGED <<lastFetched, now, ticks, storageFault, store, console, appVars>>

\* loadAllData awaiting each fetcher before it calls the next: the call runs
\* up to the await of fetchItems.
CallLoadAllDataOneByOne ==
  /\ Quiescent
  /\ ncalls < MaxCalls
  /\ ncalls' = ncalls + 1
  /\ Start({1}, LoadOrder)
  /\ loadAll' = Pending
  /\ UNCHANGED <<lastFetched, now, ticks, storageFault, store, console, appVars>>

\* A caller invokes loadAllData and awaits it: the four fetchers start before
\* the await of Promise.all.
CallLoadAllData ==
  /\ Quiescent
  /\ ncalls < MaxCalls
  /\ ncalls' = ncalls + 1
  /\ Start(Slots, LoadOrder)
  /\ loadAll' = Pending
  /\ UNCHANGED <<lastFetched, now, ticks, storageFault, store, console, appVars>>

\* The object loadAllData returns: the four fetched values, in the order of
\* LoadOrder (items, hideoutModules, projects, quests).
AllData(values) == [kind |-> "data", records |-> values]

\* loadAllData with a Promise.all that waits for every promise to settle and
\* never rejects: the values that arrived are returned, the others left out.
LoadAllAfterSettled(i, p, ps) ==
  /\ loadAll' =
       IF loadAll.state # "pending" THEN loadAll
       ELSE IF /\ p.state \in {"fulfilled", "rejected"}
               /\ \A j \in Slots \ {i} : ps[j].state \in {"fulfilled", "rejected"}
         THEN Fulfilled(AllData([j \in Slots |-> IF j = i THEN p.value ELSE ps[j].value]))
       ELSE loadAll
  /\ console' = console

\* loadAllData's continuation once slot i's promise settles as p, the other
\* slots' promises being ps: Promise.all rejects with the first rejection (the
\* catch logs and rethrows it) and fulfils once every promise has, and the
\* four values are then returned.
LoadAllAfter(i, p, ps) ==
  /\ loadAll' =
       IF loadAll.state # "pending" THEN loadAll
       ELSE IF p.state = "rejected" THEN Rejected(p.error)
       ELSE IF p.state = "fulfilled" /\ \A j \in Slots \ {i} : ps[j].state = "fulfilled"
         THEN Fulfilled(AllData([j \in Slots |-> IF j = i THEN p.value ELSE ps[j].value]))
       ELSE loadAll
  /\ console' =
       IF loadAll.state = "pending" /\ p.state = "rejected"
         THEN Append(console, [level |-> "error", text |-> "Error loading data:", error |-> p.error])
         ELSE console

\* FetchSettle with every response that is not ok, a client error included,
\* answered by another call of fetch while attempts remain.
FetchSettleRetryingAll(i, r) ==
  /\ pc[i] = "awaitFetch"
  /\ seen' = [seen EXCEPT ![i] = Append(@, r)]
  /\ response' = [response EXCEPT ![i] = r]
  /\ IF r.kind = "reject"
       THEN /\ pc' = [pc EXCEPT ![i] = "done"]
            /\ promise' = [promise EXCEPT ![i] = Rejected(NetworkError)]
            /\ UNCHANGED <<attempts, fetchCalls>>
       ELSE IF ~Ok(r) /\ Len(attempts[i]) < MAX_RETRIES
         THEN /\ pc' = pc
              /\ promise' = promise
              /\ attempts' = [attempts EXCEPT ![i] = Append(@, now)]
              /\ fetchCalls' = [fetchCalls EXCEPT ![dataset[i]] = @ + 1]
       ELSE IF ~Ok(r)
         THEN /\ pc' = [pc EXCEPT ![i] = "done"]
              /\ promise' = [promise EXCEPT ![i] = Rejected(FetchError(dataset[i], r))]
              /\ UNCHANGED <<attempts, fetchCalls>>
         ELSE /\ pc' = [pc EXCEPT ![i] = "awaitJson"]
              /\ promise' = promise
              /\ UNCHANGED <<attempts, fetchCalls>>
  /\ LoadAllAfter(i, promise'[i], promise)
  /\ UNCHANGED <<dataset, calledAt, prior, lastFetched, ncalls, now, ticks, storageFault, store,
                 appVars>>

\* The fetch slot i awaits settles with r: a rejection passes through, a
\* response that is not ok throws, an ok response goes on to response.json().
FetchSettle(i, r) ==
  /\ pc[i] = "awaitFetch"
  /\ seen' = [seen EXCEPT ![i] = Append(@, r)]
  /\ response' = [response EXCEPT ![i] = r]
  /\ IF r.kind = "reject"
       THEN /\ pc' = [pc EXCEPT ![i] = "done"]
            /\ promise' = [promise EXCEPT ![i] = Rejected(NetworkError)]
       ELSE IF ~Ok(r)
         THEN /\ pc' = [pc EXCEPT ![i] = "done"]
              /\ promise' = [promise EXCEPT ![i] = Rejected(FetchError(dataset[i], r))]
         ELSE /\ pc' = [pc EXCEPT ![i] = "awaitJson"]
              /\ promise' = promise
  /\ LoadAllAfter(i, promise'[i], promise)
  /\ UNCHANGED <<dataset, calledAt, attempts, prior, fetchCalls, lastFetched, ncalls,
                 now, ticks, storageFault, store, appVars>>

\* return response.json(): slot i's promise settles as the parse does.
JsonSettle(i) ==
  /\ pc[i] = "awaitJson"
  /\ pc' = [pc EXCEPT ![i] = "done"]
  /\ IF response[i].body = NotJson
       THEN /\ promise' = [promise EXCEPT ![i] = Rejected(SyntaxError)]
            /\ lastFetched' = lastFetched
       ELSE /\ promise' = [promise EXCEPT ![i] = Fulfilled(response[i].body)]
            /\ lastFetched' = [lastFetched EXCEPT ![dataset[i]] = Entry(now, response[i].body)]
  /\ LoadAllAfter(i, promise'[i], promise)
  /\ UNCHANGED <<dataset, response, calledAt, attempts, seen, prior, fetchCalls, ncalls,
                 now, ticks, storageFault, store, appVars>>

\* The clock advances (vi.advanceTimersByTime, or real time passing).
Tick(dt) ==
  /\ ticks < MaxTicks
  /\ ticks' = ticks + 1
  /\ now' = now + dt
  /\ UNCHANGED <<slotVars, loadAll, fetchCalls, lastFetched, ncalls, storageFault, store, console,
                 appVars>>

\* Callers that invoke one fetcher at a time.
Next ==
  \/ \E d \in Datasets : CallFetch(d)
  \/ \E i \in Slots, r \in Responses : FetchSettle(i, r)
  \/ \E i \in Slots : JsonSettle(i)
  \/ \E dt \in TickSteps : Tick(dt)

Spec == Init /\ [][Next]_vars

\* The responses the test-suite serves to loadAllData: a one-record payload, a
\* client error and a server error.
LoadAllResponses ==
  {Response(200, ArrayBody(<<RecA>>)), Response(404, NoBody), Response(500, NoBody)}

\* Callers that invoke loadAllData.
NextLoadAll ==
  \/ CallLoadAllData
  \/ \E i \in Slots, r \in LoadAllResponses : FetchSettle(i, r)
  \/ \E i \in Slots : JsonSettle(i)
  \/ Tick(SIX_MINUTES)

SpecLoadAll == Init /\ [][NextLoadAll]_vars

\* What the four fetches of one loadAllData call can end with, each on its own:
\* a payload, a body that does not parse, a server error.
LoadAllOutcomes ==
  {Response(200, ArrayBody(<<RecA>>)), Response(200, NotJson), Response(500, NoBody)}

\* loadAllData calls whose four fetches settle in any order.
NextLoadAllOutcomes ==
  \/ CallLoadAllData
  \/ \E i \in Slots, r \in LoadAllOutcomes : FetchSettle(i, r)
  \/ \E i \in Slots : JsonSettle(i)

SpecLoadAllOutcomes == Init /\ [][NextLoadAllOutcomes]_vars

\* sessionStorage.getItem or sessionStorage.setItem throws, as the test-suite's
\* "sessionStorage failures" make them.
InitStorageFault == InitWith({"getItem", "setItem"})

SpecStorageFault == InitStorageFault /\ [][Next]_vars

\* Two callers invoke the same fetcher, the second before the promise of the
\* first has settled: both invocations run up to their await of fetch.
CallFetchTwice(d) ==
  /\ Quiescent
  /\ ncalls < MaxCalls
  /\ ncalls' = ncalls + 1
  /\ Start({1, 2}, [i \in Slots |-> d])
  /\ loadAll' = NotStarted
  /\ UNCHANGED <<lastFetched, now, ticks, storageFault, store, console, appVars>>

\* Pairs of concurrent invocations of one fetcher, their fetches settling in
\* any order, each with a payload, another payload or a server error.
NextConcurrent ==
  \/ \E d \in Datasets : CallFetchTwice(d)
  \/ \E i \in Slots :
       \E r \in { Response(200, ArrayBody(<<RecA>>)),
                  Response(200, ArrayBody(<<RecA, RecB>>)),
                  Response(500, NoBody) } : FetchSettle(i, r)
  \/ \E i \in Slots : JsonSettle(i)

SpecConcurrent == Init /\ [][NextConcurrent]_vars

\* ------------------------------------------------------- reference index
\* Most hideout modules, projects and quests the datasets of a run hold.
MaxSources == 2

SeqsUpTo(S, n) == UNION {[1..k -> S] : k \in 0..n}

\* A display name as the data holds it: a localized object {en: ...}, or a
\* plain string.
Localized(s) == [kind |-> "localized", en |-> s]
Plain(s) == [kind |-> "string", en |-> s]

\* What a template literal `${v}` makes of a name: the string itself, and
\* "[object Object]" of an object.
String(v) == IF v.kind = "string" THEN v.en ELSE "[object Object]"

RequirementItem(id, q) == [itemId |-> id, quantity |-> q]
HideoutModuleLevel(n, reqs) == [level |-> n, requirementItemIds |-> reqs]
HideoutModule(name, levels) == [name |-> name, levels |-> levels]
ProjectPhase(name, reqs) == [name |-> name, requirementItemIds |-> reqs]
Project(name, phases) == [name |-> name, phases |-> phases]
\* A quest's requiredItemIds is optional.
Quest(name, reqs) == [name |-> name, requiredItemIds |-> [defined |-> TRUE, list |-> reqs]]
QuestWithout(name) == [name |-> name, requiredItemIds |-> [defined |-> FALSE, list |-> <<>>]]

\* The hideout modules the test-suite builds, and Storage as data with plain
\* string names holds it.
Storage ==
  HideoutModule(Localized("Storage"),
    << HideoutModuleLevel(1, <<RequirementItem("item-1", 5)>>),
       HideoutModuleLevel(2, <<RequirementItem("item-1", 10)>>) >>)
PlainStorage == [Storage EXCEPT !.name = Plain("Storage")]
TestModule ==
  HideoutModule(Localized("Test Module"),
    << HideoutModuleLevel(1, <<RequirementItem("item-1", 5)>>) >>)
Workshop ==
  HideoutModule(Localized("Workshop"),
    << HideoutModuleLevel(1, <<RequirementItem("item-2", 5)>>) >>)
ModulePool == {Storage, PlainStorage, TestModule, Workshop}

\* The projects the test-suite builds.
BuildBase ==
  Project(Localized("Build Base"),
    << ProjectPhase(Plain("Foundation"), <<RequirementItem("item-2", 20)>>),
       ProjectPhase(Localized("Walls"), <<RequirementItem("item-2", 30)>>) >>)
TestProject ==
  Project(Localized("Test Project"),
    << ProjectPhase(Plain("Phase 1"), <<RequirementItem("item-1", 10)>>) >>)
ProjectPool == {BuildBase, TestProject}

\* The quests the test-suite builds.
FindMaterials == Quest(Localized("Find Materials"), <<RequirementItem("item-3", 15)>>)
TestQuest == Quest(Localized("Test Quest"), <<RequirementItem("item-1", 3)>>)
NoItemsQuest == QuestWithout(Localized("No Items Quest"))
QuestPool == {FindMaterials, TestQuest, NoItemsQuest}

\* The item ids the datasets speak of, and one they do not.
ItemIds == {"item-1", "item-2", "item-3", "item-4"}

\* What referenceMap.get(id) || {...} gives: the entry, or the empty details.
EmptyDetails == [count |-> 0, sources |-> <<>>, totalQuantity |-> 0, quantityBySource |-> <<>>]
Details(map, id) == IF id \in DOMAIN map THEN map[id] ELSE EmptyDetails

\* The labels of the two loops.
ModuleSourceName(module, level) ==
  String(module.name) \o " (Level " \o ToString(level.level) \o ")"
ProjectSourceName(project, phase) ==
  String(project.name) \o " (" \o String(phase.name) \o ")"

\* An occurrence recorded with a label already among the sources merged into
\* that source: the label is not listed again.
AddReferenceDistinctSources(map, requirement, sourceName) ==
  LET current == Details(map, requirement.itemId)
  IN  (requirement.itemId :>
         [count |-> current.count + 1,
          sources |-> IF \E k \in 1..Len(current.sources) : current.sources[k] = sourceName
                        THEN current.sources
                        ELSE Append(current.sources, sourceName),
          totalQuantity |-> current.totalQuantity + requirement.quantity,
          quantityBySource |-> (sourceName :> requirement.quantity) @@ current.quantityBySource])
      @@ map

\* The body of the innermost loops: referenceMap.set(requirement.itemId, ...)
\* with the count one up, the label appended, the quantity added, and the
\* label's key of quantityBySource set to the quantity.
AddReference(map, requirement, sourceName) ==
  LET current == Details(map, requirement.itemId)
  IN  (requirement.itemId :>
         [count |-> current.count + 1,
          sources |-> Append(current.sources, sourceName),
          totalQuantity |-> current.totalQuantity + requirement.quantity,
          quantityBySource |-> (sourceName :> requirement.quantity) @@ current.quantityBySource])
      @@ map

\* for (const requirement of <level or phase>.requirementItemIds)
RECURSIVE AddRequirements(_, _, _)
AddRequirements(map, requirements, sourceName) ==
  IF requirements = <<>> THEN map
  ELSE AddRequirements(AddReference(map, Head(requirements), sourceName),
                       Tail(requirements), sourceName)

\* for (const level of module.levels)
RECURSIVE AddLevels(_, _, _)
AddLevels(map, module, levels) ==
  IF levels = <<>> THEN map
  ELSE AddLevels(AddRequirements(map, Head(levels).requirementItemIds,
                                 ModuleSourceName(module, Head(levels))),
                 module, Tail(levels))

\* for (const module of hideoutModules)
RECURSIVE AddModules(_, _)
AddModules(map, modules) ==
  IF modules = <<>> THEN map
  ELSE AddModules(AddLevels(map, Head(modules), Head(modules).levels), Tail(modules))

\* for (const phase of project.phases)
RECURSIVE AddPhases(_, _, _)
AddPhases(map, project, phases) ==
  IF phases = <<>> THEN map
  ELSE AddPhases(AddRequirements(map, Head(phases).requirementItemIds,
                                 ProjectSourceName(project, Head(phases))),
                 project, Tail(phases))

\* for (const project of projects)
RECURSIVE AddProjects(_, _)
AddProjects(map, projs) ==
  IF projs = <<>> THEN map
  ELSE AddProjects(AddPhases(map, Head(projs), Head(projs).phases), Tail(projs))

\* buildReferenceCount with the loop over the projects ahead of the loop over
\* the hideout modules.
buildReferenceCountProjectsFirst(modules, projs) ==
  AddModules(AddProjects(<<>>, projs), modules)

\* buildReferenceCount(hideoutModules, projects): the map after the loop over
\* the hideout modules and then the loop over the projects.
buildReferenceCount(modules, projs) ==
  AddProjects(AddModules(<<>>, modules), projs)

\* The datasets have arrived: any of the pools' hideout modules, projects and
\* quests.
InitIndex ==
  /\ LoaderInit({"none"})
  /\ searchQuery = <<>>
  /\ items = <<>>
  /\ hideoutModules \in SeqsUpTo(ModulePool, MaxSources)
  /\ projects \in SeqsUpTo(ProjectPool, MaxSources)
  /\ quests \in SeqsUpTo(QuestPool, MaxSources)
  /\ referenceCounts = Returned(<<>>)
  /\ filteredItems = Returned(<<>>)
  /\ UtilsInit
  /\ called = {}
  /\ Mounted

\* referenceCounts = buildReferenceCount(data.hideoutModules, data.projects,
\* data.quests): the function takes two arguments, the third is dropped.
BuildReferenceCount ==
  /\ "buildReferenceCount" \notin called
  /\ called' = called \cup {"buildReferenceCount"}
  /\ referenceCounts' = Returned(buildReferenceCount(hideoutModules, projects))
  /\ UNCHANGED <<loaderVars, searchQuery, items, hideoutModules, projects, quests,
                 filteredItems, itemIds, filters, result, mountVars>>

NextIndex == BuildReferenceCount

SpecIndex == InitIndex /\ [][NextIndex]_vars

\* ------------------------------------------------------------------ search
\* Most items the items dataset of a run holds.
MaxItems == 3

\* Text that is searched or searched for is a sequence of characters.
UpperCase == <<"A", "B", "C", "D", "E", "F", "G", "H", "I", "J", "K", "L", "M",
               "N", "O", "P", "Q", "R", "S", "T", "U", "V", "W", "X", "Y", "Z">>
LowerCase == <<"a", "b", "c", "d", "e", "f", "g", "h", "i", "j", "k", "l", "m",
               "n", "o", "p", "q", "r", "s", "t", "u", "v", "w", "x", "y", "z">>
WhiteSpace == {" ", "\t", "\n"}

\* String.prototype.toLowerCase
ToLowerCase(text) ==
  [k \in 1..Len(text) |->
     IF \E u \in 1..Len(UpperCase) : UpperCase[u] = text[k]
       THEN LowerCase[CHOOSE u \in 1..Len(UpperCase) : UpperCase[u] = text[k]]
       ELSE text[k]]

\* String.prototype.trim
RECURSIVE TrimStart(_)
TrimStart(text) ==
  IF text # <<>> /\ Head(text) \in WhiteSpace THEN TrimStart(Tail(text)) ELSE text
RECURSIVE TrimEnd(_)
TrimEnd(text) ==
  IF text # <<>> /\ text[Len(text)] \in WhiteSpace
    THEN TrimEnd(SubSeq(text, 1, Len(text) - 1))
    ELSE text
Trim(text) == TrimEnd(TrimStart(text))

\* String.prototype.includes
Includes(text, part) ==
  \E k \in 0..(Len(text) - Len(part)) : SubSeq(text, k + 1, k + Len(part)) = part

IronOreText == <<"I", "r", "o", "n", " ", "O", "r", "e">>
SteelBarText == <<"S", "t", "e", "e", "l", " ", "B", "a", "r">>
IronBarText == <<"I", "r", "o", "n", " ", "B", "a", "r">>

\* The texts of the test-suite's names, descriptions and queries, as the
\* characters they are made of.
Text ==
  [ TestItem |->
      <<"T", "e", "s", "t", " ", "I", "t", "e", "m">>,
    TestDescription |->
      <<"T", "e", "s", "t", " ", "D", "e", "s", "c", "r", "i", "p", "t", "i", "o", "n">>,
    Tool |->
      <<"T", "o", "o", "l">>,
    MadeOfIron |->
      <<"M", "a", "d", "e", " ", "o", "f", " ", "i", "r", "o", "n">>,
    Workshop |->
      <<"W", "o", "r", "k", "s", "h", "o", "p">>,
    StorageUnit |->
      <<"S", "t", "o", "r", "a", "g", "e", " ", "U", "n", "i", "t">>,
    DefenseSystem |->
      <<"D", "e", "f", "e", "n", "s", "e", " ", "S", "y", "s", "t", "e", "m">>,
    Setup |->
      <<"S", "e", "t", "u", "p">>,
    ScavengerHunt |->
      <<"S", "c", "a", "v", "e", "n", "g", "e", "r", " ", "H", "u", "n", "t">>,
    BaseProject |->
      <<"B", "a", "s", "e", " ", "P", "r", "o", "j", "e", "c", "t">>,
    FoundationWork |->
      <<"F", "o", "u", "n", "d", "a", "t", "i", "o", "n", " ", "W", "o", "r", "k">>,
    Roofing |->
      <<"R", "o", "o", "f", "i", "n", "g">>,
    WorkshopBeta |->
      <<"W", "o", "r", "k", "s", "h", "o", "p", " ", "B", "e", "t", "a">>,
    NoItemsQuest |->
      <<"N", "o", " ", "I", "t", "e", "m", "s", " ", "Q", "u", "e", "s", "t">>,
    workshop |->
      <<"w", "o", "r", "k", "s", "h", "o", "p">>,
    foundation |->
      <<"f", "o", "u", "n", "d", "a", "t", "i", "o", "n">> ]

\* createMockItem(): the item the test-suites start from.
MockItem ==
  [id |-> "item-1", name |-> Localized(Text.TestItem),
   description |-> Localized(Text.TestDescription),
   type |-> "Basic Material", rarity |-> "Common"]

\* createMockItem({ id, name })
Item(id, name) == [MockItem EXCEPT !.id = id, !.name = name]

\* The items of the test-suite's 'should filter items by name match', and the
\* same with plain string names.
IronOre == Item("item-1", Localized(IronOreText))
SteelBar == Item("item-2", Localized(SteelBarText))
IronBar == Item("item-3", Localized(IronBarText))
PlainIronOre == Item("item-1", Plain(IronOreText))
PlainSteelBar == Item("item-2", Plain(SteelBarText))
PlainIronBar == Item("item-3", Plain(IronBarText))
\* The item of 'should filter items by description match', and the same with
\* a plain string name.
Tool == [Item("item-1", Localized(Text.Tool)) EXCEPT !.description = Localized(Text.MadeOfIron)]
PlainTool == [Tool EXCEPT !.name = Plain(Text.Tool)]
ItemPool ==
  {IronOre, SteelBar, IronBar, PlainIronOre, PlainSteelBar, PlainIronBar, Tool, PlainTool}

\* The modules, the project and the quest of the test-suite's searches, their
\* names as text to search in.
SearchWorkshop ==
  HideoutModule(Localized(Text.Workshop),
    << HideoutModuleLevel(1, <<RequirementItem("item-2", 5)>>) >>)
StorageUnit ==
  HideoutModule(Localized(Text.StorageUnit),
    << HideoutModuleLevel(1, <<RequirementItem("item-1", 5)>>) >>)
DefenseSystem ==
  Project(Localized(Text.DefenseSystem),
    << ProjectPhase(Plain(Text.Setup), <<RequirementItem("item-2", 10)>>) >>)
ScavengerHunt == Quest(Localized(Text.ScavengerHunt), <<RequirementItem("item-5", 20)>>)

\* The requirement datasets at hand when a query is typed: none, one module,
\* or a module, a project and a quest.
SearchDatasets ==
  { [hideoutModules |-> <<>>, projects |-> <<>>, quests |-> <<>>],
    [hideoutModules |-> <<SearchWorkshop>>, projects |-> <<>>, quests |-> <<>>],
    [hideoutModules |-> <<StorageUnit>>, projects |-> <<DefenseSystem>>,
     quests |-> <<ScavengerHunt>>] }

\* The queries typed: none, blanks, and words in either case, of item names
\* and of source names.
Queries ==
  { <<>>,
    <<" ", " ", " ">>,
    <<"i", "r", "o", "n">>,
    <<"B", "A", "R">>,
    <<"o", "r">>,
    <<"w", "o", "r", "k", "s", "h", "o", "p">> }

\* filterItemsByName with the blank check made on the query as typed.
filterItemsByNameUntrimmed(its, query) ==
  IF query = <<>> THEN Returned(its)
  ELSE IF \E k \in 1..Len(its) : its[k].name.kind # "string" THEN Threw("TypeError")
  ELSE LET lowerQuery == ToLowerCase(query)
           Matches(item) == Includes(ToLowerCase(item.name.en), lowerQuery)
       IN  Returned(SelectSeq(its, Matches))

\* filterItemsByName(items, searchQuery): the items themselves for a blank
\* query; else the items whose name, lower-cased, includes the lower-cased
\* query. item.name.toLowerCase() is a TypeError on a name that is no string.
filterItemsByName(its, query) ==
  IF Trim(query) = <<>> THEN Returned(its)
  ELSE IF \E k \in 1..Len(its) : its[k].name.kind # "string" THEN Threw("TypeError")
  ELSE LET lowerQuery == ToLowerCase(query)
           Matches(item) == Includes(ToLowerCase(item.name.en), lowerQuery)
       IN  Returned(SelectSeq(its, Matches))

\* The datasets have arrived and a query is typed.
InitSearch ==
  /\ LoaderInit({"none"})
  /\ searchQuery \in Queries
  /\ items \in SeqsUpTo(ItemPool, MaxItems)
  /\ \E data \in SearchDatasets :
       /\ hideoutModules = data.hideoutModules
       /\ projects = data.projects
       /\ quests = data.quests
  /\ referenceCounts = Returned(<<>>)
  /\ filteredItems = Returned(<<>>)
  /\ UtilsInit
  /\ called = {}
  /\ Mounted

\* $: filteredItems = filterItemsByName(items, searchQuery, hideoutModules,
\* projects, quests): the function takes two arguments, the others are dropped.
FilterItemsByName ==
  /\ "filterItemsByName" \notin called
  /\ called' = called \cup {"filterItemsByName"}
  /\ filteredItems' = filterItemsByName(items, searchQuery)
  /\ UNCHANGED <<loaderVars, searchQuery, items, hideoutModules, projects, quests,
                 referenceCounts, itemIds, filters, result, mountVars>>

NextSearch == FilterItemsByName

SpecSearch == InitSearch /\ [][NextSearch]_vars

\* ------------------------------------------------- items required by source

\* The other sources of the test-suite's findItemsRequiredBySource cases.
BaseProject ==
  Project(Localized(Text.BaseProject),
    << ProjectPhase(Plain(Text.FoundationWork), <<RequirementItem("item-3", 10)>>),
       ProjectPhase(Plain(Text.Roofing), <<RequirementItem("item-4", 5)>>) >>)
WorkshopBeta ==
  Project(Localized(Text.WorkshopBeta),
    << ProjectPhase(Plain(Text.Setup), <<RequirementItem("item-2", 10)>>) >>)

\* The item ids those sources require.
SourceItemIds == {"item-1", "item-2", "item-3", "item-4", "item-5"}

\* The item ids of a list of requirements.
RequiredIds(requirements) == {requirements[r].itemId : r \in 1..Len(requirements)}

\* Whether a name's English text contains the query, whatever the case.
NameContains(name, query) == Includes(ToLowerCase(name.en), ToLowerCase(query))

\* The phases of the projects, each with the project it is of.
PhasesOf(projs) ==
  UNION { { [project |-> projs[p], phase |-> projs[p].phases[f]] :
              f \in 1..Len(projs[p].phases) } :
          p \in 1..Len(projs) }

\* The ids the levels of the modules whose name contains the query require.
RequiredByModules(modules, query) ==
  UNION { UNION { RequiredIds(modules[m].levels[l].requirementItemIds) :
                    l \in 1..Len(modules[m].levels) } :
            m \in {n \in 1..Len(modules) : NameContains(modules[n].name, query)} }

\* The ids the quests whose name contains the query require.
RequiredByQuests(qs, query) ==
  UNION { RequiredIds(qs[q].requiredItemIds.list) :
            q \in {n \in 1..Len(qs) : NameContains(qs[n].name, query)} }

\* findItemsRequiredBySource with the phase names left unread.
findItemsRequiredBySourceNamesOnly(modules, projs, qs, query) ==
  RequiredByModules(modules, query)
  \cup UNION { RequiredIds(pp.phase.requirementItemIds) :
                 pp \in {ph \in PhasesOf(projs) : NameContains(ph.project.name, query)} }
  \cup RequiredByQuests(qs, query)

\* findItemsRequiredBySource with the quests left unread.
findItemsRequiredBySourceWithoutQuests(modules, projs, qs, query) ==
  RequiredByModules(modules, query)
  \cup UNION { RequiredIds(pp.phase.requirementItemIds) :
                 pp \in {ph \in PhasesOf(projs) :
                           \/ NameContains(ph.project.name, query)
                           \/ NameContains(ph.phase.name, query)} }

\* findItemsRequiredBySource(hideoutModules, projects, quests, query): the set
\* of the item ids required by the levels of every module whose name contains
\* the query, by the phases of every project whose name contains it, by every
\* phase whose own name contains it, and by every quest whose name contains it.
findItemsRequiredBySource(modules, projs, qs, query) ==
  RequiredByModules(modules, query)
  \cup UNION { RequiredIds(pp.phase.requirementItemIds) :
                 pp \in {ph \in PhasesOf(projs) :
                           \/ NameContains(ph.project.name, query)
                           \/ NameContains(ph.phase.name, query)} }
  \cup RequiredByQuests(qs, query)

\* The requirement datasets have arrived and one of the queries of the
\* test-suite is typed.
InitSources ==
  /\ LoaderInit({"none"})
  /\ searchQuery \in
     { <<"s", "t", "o", "r", "a", "g", "e">>,
       Text.foundation,
       <<"s", "c", "a", "v", "e", "n", "g", "e", "r">>,
       <<"n", "o", " ", "i", "t", "e", "m", "s">>,
       <<"n", "o", "n", "e", "x", "i", "s", "t", "e", "n", "t">>,
       Text.workshop }
  /\ items = <<>>
  /\ hideoutModules \in SeqsUpTo({StorageUnit, SearchWorkshop}, MaxSources)
  /\ projects \in SeqsUpTo({BaseProject, WorkshopBeta}, MaxSources)
  /\ quests \in SeqsUpTo({ScavengerHunt, QuestWithout(Localized(Text.NoItemsQuest))},
                         MaxSources)
  /\ referenceCounts = Returned(<<>>)
  /\ filteredItems = Returned(<<>>)
  /\ UtilsInit
  /\ called = {}
  /\ Mounted

\* const itemIds = findItemsRequiredBySource(modules, projects, quests, query)
FindItemsRequiredBySource ==
  /\ "findItemsRequiredBySource" \notin called
  /\ called' = called \cup {"findItemsRequiredBySource"}
  /\ itemIds' = findItemsRequiredBySource(hideoutModules, projects, quests, searchQuery)
  /\ UNCHANGED <<loaderVars, searchQuery, items, hideoutModules, projects, quests,
                 referenceCounts, filteredItems, filters, result, mountVars>>

NextSources == FindItemsRequiredBySource

SpecSources == InitSources /\ [][NextSources]_vars

\* ------------------------------------------------------------------ filters
\* An item without the rarity field.
Undefined == "undefined"

\* createMockItem({ id, rarity, type })
FilterItem(id, rarity, type) == [MockItem EXCEPT !.id = id, !.rarity = rarity, !.type = type]

\* The items of the test-suite's applyFilters cases, an item whose rarity is
\* the empty string and an item without rarity.
FilterItemPool ==
  { FilterItem("1", "Common", "Basic Material"),
    FilterItem("2", "Rare", "Medical"),
    FilterItem("3", "Common", "Tool"),
    FilterItem("4", "Epic", "Medical"),
    FilterItem("5", "", "Tool"),
    FilterItem("6", Undefined, "Medical") }

\* The filters of those cases, and rarity filters that list the empty string.
FilterPool ==
  { [rarities |-> rs, types |-> ts] :
      rs \in {<<>>, <<"Common">>, <<"Rare", "Epic">>, <<"Legendary">>, <<"">>,
              <<"", "Common">>},
      ts \in {<<>>, <<"Medical">>, <<"Tool", "Medical">>} }

\* !value of a string or undefined
Falsy(value) == value \in {"", Undefined}

\* Array.prototype.includes
ArrayIncludes(list, value) == \E k \in 1..Len(list) : list[k] = value

\* applyFilters with the rarity test on the list alone.
applyFiltersListedOnly(its, fs) ==
  LET Keep(item) ==
        IF Len(fs.rarities) > 0 /\ ~ArrayIncludes(fs.rarities, item.rarity) THEN FALSE
        ELSE IF Len(fs.types) > 0 /\ ~ArrayIncludes(fs.types, item.type) THEN FALSE
        ELSE TRUE
  IN  SelectSeq(its, Keep)

\* applyFilters(items, filters): items.filter with, per item, return false for
\* an active rarity filter the item has no rarity for or is not listed in,
\* return false for an active type filter the type is not listed in, else
\* return true.
applyFilters(its, fs) ==
  LET Keep(item) ==
        IF /\ Len(fs.rarities) > 0
           /\ (Falsy(item.rarity) \/ ~ArrayIncludes(fs.rarities, item.rarity))
          THEN FALSE
        ELSE IF Len(fs.types) > 0 /\ ~ArrayIncludes(fs.types, item.type) THEN FALSE
        ELSE TRUE
  IN  SelectSeq(its, Keep)

\* Items and filters are at hand.
InitFilters ==
  /\ LoaderInit({"none"})
  /\ searchQuery = <<>>
  /\ items \in SeqsUpTo(FilterItemPool, MaxItems)
  /\ hideoutModules = <<>>
  /\ projects = <<>>
  /\ quests = <<>>
  /\ referenceCounts = Returned(<<>>)
  /\ filteredItems = Returned(<<>>)
  /\ itemIds = {}
  /\ filters \in FilterPool
  /\ result = <<>>
  /\ called = {}
  /\ Mounted

\* const result = applyFilters(items, filters)
ApplyFilters ==
  /\ "applyFilters" \notin called
  /\ called' = called \cup {"applyFilters"}
  /\ result' = applyFilters(items, filters)
  /\ UNCHANGED <<loaderVars, searchQuery, items, hideoutModules, projects, quests,
                 referenceCounts, filteredItems, itemIds, filters, mountVars>>

NextFilters == ApplyFilters

SpecFilters == InitFilters /\ [][NextFilters]_vars

\* ---------------------------------------------------------------- App mount
\* What the fetch of a dataset can end with while the App mounts: its records,
\* a JSON object that is no array, a server error.
AppResponses(d) ==
  LET records == CASE d = "items" -> <<IronOre>>
                   [] d = "hideoutModules" -> <<Storage>>
                   [] d = "projects" -> <<BuildBase>>
                   [] d = "quests" -> <<FindMaterials>>
  IN  {Response(200, ArrayBody(records)), Response(200, ObjectBody), Response(500, NoBody)}

\* The value a parsed body is: the array of its records, or the object.
Value(b) == IF b.kind = "array" THEN b.records ELSE b

\* buildReferenceCount as onMount calls it, on whatever loadAllData returned:
\* the loops over hideoutModules and over projects throw on a value that is
\* not iterable.
BuildFrom(modules, projs) ==
  IF modules.kind # "array" \/ projs.kind # "array"
    THEN Threw("TypeError")
    ELSE Returned(buildReferenceCount(modules.records, projs.records))

\* onMount(async () => { try { const data = await loadAllData(): the callback
\* runs up to the await, the four fetchers started.
Mount ==
  /\ onMount = "idle"
  /\ onMount' = "awaitLoadAllData"
  /\ ncalls' = ncalls + 1
  /\ Start(Slots, LoadOrder)
  /\ loadAll' = Pending
  /\ UNCHANGED <<lastFetched, now, ticks, storageFault, store, console, searchQuery, items,
                 hideoutModules, projects, quests, referenceCounts, filteredItems, itemIds,
                 filters, result, called, loading, error>>

\* The rest of the callback once loadAllData has settled. Fulfilled: the four
\* datasets are assigned (the reactive filteredItems follows items), then
\* buildReferenceCount runs and loading is set false; what it throws lands in
\* the catch. Rejected: the catch sets error to the message and loading false.
OnMountResume ==
  /\ onMount = "awaitLoadAllData"
  /\ loadAll.state \in {"fulfilled", "rejected"}
  /\ onMount' = "done"
  /\ loading' = FALSE
  /\ IF loadAll.state = "fulfilled"
       THEN LET data == loadAll.value.records
                built == BuildFrom(data[2], data[3])
            IN  /\ items' = Value(data[1])
                /\ hideoutModules' = Value(data[2])
                /\ projects' = Value(data[3])
                /\ quests' = Value(data[4])
                /\ filteredItems' = filterItemsByName(Value(data[1]), searchQuery)
                /\ referenceCounts' = IF built.threw = "none" THEN built ELSE referenceCounts
                /\ error' =
                     IF built.threw = "none" THEN error
                     ELSE [kind |-> "TypeError: not iterable", noun |-> "", statusText |-> ""]
       ELSE /\ error' = loadAll.error
            /\ UNCHANGED <<items, hideoutModules, projects, quests, filteredItems,
                           referenceCounts>>
  /\ UNCHANGED <<loaderVars, searchQuery, itemIds, filters, result, called>>

\* The App mounts once; the fetches of its load settle in any order.
NextApp ==
  \/ Mount
  \/ \E i \in Slots : \E r \in AppResponses(dataset[i]) : FetchSettle(i, r)
  \/ \E i \in Slots : JsonSettle(i)
  \/ OnMountResume

SpecApp == Init /\ [][NextApp]_vars

\* ------------------------------------------------------------------ claims
Last(q) == q[Len(q)]

\* A response that fails the request for the client's fault (4xx).
ClientError(r) == r.kind = "response" /\ r.status >= 400 /\ r.status <= 499
\* A failure worth another attempt: a 5xx response or a transport failure.
Retryable(r) == r.kind = "reject" \/ (r.kind = "response" /\ r.status >= 500)

\* The per-record shape check of the dataset validator: the required fields are
\* there with the expected shape, and every entry of a quest's requiredItemIds
\* has a string itemId and a numeric quantity.
IsValidRecord(rec) ==
  /\ rec.id # "absent"
  /\ rec.name = "localized"
  /\ rec.requiredItemIds # "malformed"

ValidRecords(rs) == SelectSeq(rs, IsValidRecord)

\* A payload every record of which passes the shape check, one at least.
GoodPayload(b) ==
  /\ b.kind = "array"
  /\ b.records # <<>>
  /\ ValidRecords(b.records) = b.records

\* The errors of the dataset validator.
ShapeError(d) == [kind |-> "Invalid data: expected an array", noun |-> Noun(d), statusText |-> ""]
EmptyResultError(d) == [kind |-> "No valid records found in response", noun |-> Noun(d), statusText |-> ""]

Warned == \E k \in 1..Len(console) : console[k].level = "warn"

\* The invocation of slot i found the caller's last result for its dataset no
\* older than the cache lifetime.
CachedFresh(i) ==
  /\ pc[i] # "idle"
  /\ prior[i].present
  /\ GoodPayload(prior[i].value)
  /\ calledAt[i] - prior[i].at <= CACHE_DURATION

\* The wait before retry number k.
Backoff(k) == (2 ^ (k - 1)) * RETRY_DELAY

TotalFetchCalls ==
  fetchCalls["items"] + fetchCalls["hideoutModules"] + fetchCalls["projects"] + fetchCalls["quests"]

\* C1: a fetch whose response is a 4xx fails at once: the promise is rejected
\* with the fetch error in the very step the response arrives, after exactly one
\* call of fetch and with no further attempt.
C1_ClientErrorFailsAtOnce ==
  \A i \in Slots :
    (seen[i] # <<>> /\ ClientError(seen[i][1])) =>
      /\ pc[i] = "done"
      /\ Len(seen[i]) = 1
      /\ Len(attempts[i]) = 1
      /\ promise[i] = Rejected(FetchError(dataset[i], seen[i][1]))

\* C1 witness: an invocation got a 404 and is done, rejected.
C1_Witness ==
  \E i \in Slots :
    /\ seen[i] # <<>>
    /\ seen[i][1].status = 404
    /\ pc[i] = "done"
    /\ promise[i].state = "rejected"

\* C2: a 5xx response or a transport failure is retried: no fetch ends on a
\* retryable failure before its third attempt, and a fetch that sees 500, 500
\* and then 200 is fulfilled with the payload after exactly three calls.
C2_RetryableFailureIsRetried ==
  \A i \in Slots :
    (pc[i] = "done" /\ seen[i] # <<>>) =>
      /\ Len(seen[i]) < MAX_RETRIES => ~Retryable(Last(seen[i]))
      /\ ( /\ Len(seen[i]) = 3
           /\ seen[i][1].status = 500 /\ seen[i][2].status = 500
           /\ seen[i][3].status = 200 /\ GoodPayload(seen[i][3].body) )
         => /\ promise[i] = Fulfilled(seen[i][3].body)
            /\ Len(attempts[i]) = 3

\* C3: one fetch makes at most 3 attempts, and a fetch all of whose attempts
\* failed retryably has made all 3 and is rejected with an error that carries
\* the status text of the last one.
C3_ExhaustsThreeAttempts ==
  \A i \in Slots :
    /\ Len(attempts[i]) <= MAX_RETRIES
    /\ ( /\ pc[i] = "done"
         /\ seen[i] # <<>>
         /\ \A k \in 1..Len(seen[i]) : Retryable(seen[i][k]) )
       => /\ Len(attempts[i]) = MAX_RETRIES
          /\ promise[i].state = "rejected"
          /\ promise[i].error.statusText = Last(seen[i]).statusText

\* C4: retry number k follows a retryable failure of attempt k, and is issued
\* no sooner than 2^(k-1) seconds after attempt k.
C4_BackoffBeforeRetry ==
  \A i \in Slots :
    \A k \in 1..Len(seen[i]) :
      (pc[i] = "done" /\ Retryable(seen[i][k]) /\ k < MAX_RETRIES) =>
        /\ Len(attempts[i]) > k
        /\ attempts[i][k + 1] - attempts[i][k] >= Backoff(k)

\* C5: a load of a dataset fetched no longer than the cache lifetime ago calls
\* fetch not once and returns the records fetched then; two loadAllData calls in
\* a row, the first fulfilled, make 4 calls of fetch in total.
C5_FreshCacheServesLoad ==
  /\ \A i \in Slots :
       CachedFresh(i) =>
         /\ attempts[i] = <<>>
         /\ promise[i].state # "rejected"
         /\ pc[i] = "done" => promise[i] = Fulfilled(prior[i].value)
  /\ (loadAll.state # "none" /\ \A i \in Slots : CachedFresh(i)) =>
       TotalFetchCalls = Len(LoadOrder)

\* C6: a load finds the entry stored at time t absent exactly when
\* now - t > 300000 ms: older, it calls fetch; at that age or younger, it does
\* not.
C6_EntryExpiresAfterTtl ==
  \A i \in Slots :
    (pc[i] # "idle" /\ prior[i].present /\ GoodPayload(prior[i].value)) =>
      IF calledAt[i] - prior[i].at > CACHE_DURATION
        THEN Len(attempts[i]) >= 1
        ELSE attempts[i] = <<>>

\* C7: with sessionStorage throwing, a load whose fetch succeeds is fulfilled
\* with the fetched records after a call of fetch, and a throwing write leaves a
\* warning on the console.
C7_StorageFailureIsSwallowed ==
  \A i \in Slots :
    ( /\ storageFault # "none"
      /\ pc[i] = "done"
      /\ seen[i] # <<>>
      /\ Ok(Last(seen[i]))
      /\ GoodPayload(Last(seen[i]).body) )
    => /\ promise[i] = Fulfilled(Last(seen[i]).body)
       /\ Len(attempts[i]) >= 1
       /\ storageFault = "setItem" => Warned

\* C8: a load whose payload is a JSON object, not an array, is rejected with
\* the shape error.
C8_NonArrayIsShapeError ==
  \A i \in Slots :
    ( /\ pc[i] = "done"
      /\ seen[i] # <<>>
      /\ Ok(Last(seen[i]))
      /\ Last(seen[i]).body.kind = "object" )
    => promise[i] = Rejected(ShapeError(dataset[i]))

\* C9: a load whose payload is an array of records none of which passes the
\* shape check is rejected with the empty-result error.
C9_AllInvalidIsEmptyResultError ==
  \A i \in Slots :
    ( /\ pc[i] = "done"
      /\ seen[i] # <<>>
      /\ Ok(Last(seen[i]))
      /\ Last(seen[i]).body.kind = "array"
      /\ Last(seen[i]).body.records # <<>>
      /\ ValidRecords(Last(seen[i]).body.records) = <<>> )
    => promise[i] = Rejected(EmptyResultError(dataset[i]))

\* C10: a load whose payload array holds a valid record is fulfilled with
\* exactly the valid records, in payload order, and a dropped record leaves a
\* warning on the console.
C10_ValidRecordsAreKept ==
  \A i \in Slots :
    ( /\ pc[i] = "done"
      /\ seen[i] # <<>>
      /\ Ok(Last(seen[i]))
      /\ Last(seen[i]).body.kind = "array"
      /\ ValidRecords(Last(seen[i]).body.records) # <<>> )
    => /\ promise[i] = Fulfilled(ArrayBody(ValidRecords(Last(seen[i]).body.records)))
       /\ ValidRecords(Last(seen[i]).body.records) # Last(seen[i]).body.records => Warned

\* C11: loadAllData is all-or-nothing: it is fulfilled only when all four
\* fetchers are, with the four values they gave; as soon as one fetcher is
\* rejected it is rejected, with the error of a rejected fetcher unchanged and
\* with no value.
C11_LoadAllIsAllOrNothing ==
  /\ loadAll.state = "fulfilled" =>
       /\ \A i \in Slots : promise[i].state = "fulfilled"
       /\ loadAll.value = AllData([i \in Slots |-> promise[i].value])
  /\ (loadAll.state # "none" /\ \E i \in Slots : promise[i].state = "rejected") =>
       loadAll.state = "rejected"
  /\ loadAll.state = "rejected" =>
       /\ loadAll.value = NoBody
       /\ \E i \in Slots : promise[i] = Rejected(loadAll.error)

\* C11 witness: one fetcher failed, the other three gave their values, and
\* loadAllData is rejected with the failed fetcher's error.
C11_Witness ==
  \E i \in Slots :
    /\ promise[i].state = "rejected"
    /\ \A j \in Slots \ {i} : promise[j].state = "fulfilled"
    /\ loadAll = Rejected(promise[i].error)

\* C12: loadAllData calls fetch for all four datasets in the step of the call,
\* before it waits for any: every dataset has one fetch call per loadAllData
\* call, made at the time of the call, and a fetch still awaited can settle and
\* its payload be parsed whatever state the other three are in.
C12_AllFetchesStartAtTheCall ==
  /\ \A d \in Datasets : fetchCalls[d] = ncalls
  /\ loadAll.state # "none" =>
       \A i \in Slots :
         /\ pc[i] # "idle"
         /\ attempts[i] = <<calledAt[i]>>
         /\ calledAt[i] = calledAt[1]
         /\ pc[i] = "awaitFetch" => \A r \in LoadAllOutcomes : ENABLED FetchSettle(i, r)
         /\ pc[i] = "awaitJson" => ENABLED JsonSettle(i)

\* C12 witness: the items fetch is still awaited while the other three
\* fetchers have given their values.
C12_Witness ==
  /\ pc[1] = "awaitFetch"
  /\ \A j \in Slots \ {1} : pc[j] = "done" /\ promise[j].state = "fulfilled"
  /\ loadAll.state = "pending"

\* Slots 1 and 2 hold two invocations of one fetcher made before either
\* settled.
ConcurrentPair ==
  /\ pc[1] # "idle"
  /\ pc[2] # "idle"
  /\ dataset[1] = dataset[2]
  /\ loadAll.state = "none"

\* The entry holds the payload, stored between the two times.
WellFormedEntry(entry, payload, from, to) ==
  /\ entry.present
  /\ entry.value = payload
  /\ entry.at >= from
  /\ entry.at <= to

\* C28: two invocations for the same dataset that start before either has
\* stored its result, and are served the same good payload, both end fulfilled
\* with that payload, and sessionStorage then holds one well-formed entry for
\* the dataset.
C28_ConcurrentLoadsLeaveOneEntry ==
  ( /\ ConcurrentPair
    /\ pc[1] = "done" /\ pc[2] = "done"
    /\ seen[1] = seen[2]
    /\ Ok(Last(seen[1]))
    /\ GoodPayload(Last(seen[1]).body) )
  => /\ promise[1] = Fulfilled(Last(seen[1]).body)
     /\ promise[2] = promise[1]
     /\ WellFormedEntry(store[dataset[1]], Last(seen[1]).body, calledAt[1], now)

\* The invocation of slot i settles in this step.
Settles(i) == promise[i].state = "pending" /\ promise'[i].state # "pending"

\* The invocation of slot i ends in this step fulfilled with a good payload.
Succeeds(i) ==
  /\ Settles(i)
  /\ promise'[i].state = "fulfilled"
  /\ GoodPayload(promise'[i].value)

\* The invocation of slot i found the caller's last result for its dataset
\* older than the cache lifetime.
CachedExpired(i) ==
  /\ pc[i] # "idle"
  /\ prior[i].present
  /\ GoodPayload(prior[i].value)
  /\ calledAt[i] - prior[i].at > CACHE_DURATION

\* What a step does to the entry of dataset d: it is written only as a whole
\* by a load that succeeds in the step, a load that fails in the step leaves
\* it as it was, and a load that succeeds after the expiry of the entry
\* replaces payload and timestamp.
EntryStep(d) ==
  /\ store'[d] # store[d] =>
       \E i \in Slots :
         /\ dataset[i] = d
         /\ Succeeds(i)
         /\ store'[d] = Entry(now', promise'[i].value)
  /\ \A i \in Slots :
       (dataset[i] = d /\ Settles(i) /\ ~Succeeds(i)) => store'[d] = store[d]
  /\ \A i \in Slots :
       (dataset[i] = d /\ Succeeds(i) /\ CachedExpired(i)) =>
         store'[d] = Entry(now', promise'[i].value)

\* C29: an entry is written only by a load that succeeded, as a whole; a load
\* that fails leaves the entry of its dataset as it was; a refetch that
\* succeeds after expiry replaces payload and timestamp, and the next load
\* within the lifetime of that entry calls fetch not once.
C29_EntryWrittenBySuccessOnly ==
  [][ /\ \A d \in Datasets : EntryStep(d)
      /\ \A i \in Slots : CachedFresh(i)' => attempts'[i] = <<>> ]_vars

\* ---------------------------------------------- claims: reference index
\* buildReferenceCount has been applied; the map it returned.
Built == "buildReferenceCount" \in called
Index == referenceCounts.value

RECURSIVE Flatten(_)
Flatten(ss) == IF ss = <<>> THEN <<>> ELSE Head(ss) \o Flatten(Tail(ss))

\* The text of a name: its English text, or what a template literal makes of it.
En == "en"
Interpolated == "interpolated"
Name(as, v) == IF as = En THEN v.en ELSE String(v)

\* The requirement occurrences of the datasets in traversal order, each with
\* the label made of the names read as said: the module levels, ...
ModuleOccurrences(modules, as) ==
  Flatten([m \in 1..Len(modules) |->
    Flatten([l \in 1..Len(modules[m].levels) |->
      [r \in 1..Len(modules[m].levels[l].requirementItemIds) |->
        [itemId |-> modules[m].levels[l].requirementItemIds[r].itemId,
         quantity |-> modules[m].levels[l].requirementItemIds[r].quantity,
         label |-> Name(as, modules[m].name) \o " (Level "
                     \o ToString(modules[m].levels[l].level) \o ")"]]])])

\* ... the project phases, ...
ProjectOccurrences(projs, as) ==
  Flatten([p \in 1..Len(projs) |->
    Flatten([f \in 1..Len(projs[p].phases) |->
      [r \in 1..Len(projs[p].phases[f].requirementItemIds) |->
        [itemId |-> projs[p].phases[f].requirementItemIds[r].itemId,
         quantity |-> projs[p].phases[f].requirementItemIds[r].quantity,
         label |-> Name(as, projs[p].name) \o " ("
                     \o Name(as, projs[p].phases[f].name) \o ")"]]])])

\* ... and the quests that have requiredItemIds.
QuestOccurrences(qs, as) ==
  Flatten([q \in 1..Len(qs) |->
    IF qs[q].requiredItemIds.defined
      THEN [r \in 1..Len(qs[q].requiredItemIds.list) |->
             [itemId |-> qs[q].requiredItemIds.list[r].itemId,
              quantity |-> qs[q].requiredItemIds.list[r].quantity,
              label |-> Name(as, qs[q].name) \o " (Quest)"]]
      ELSE <<>>])

\* The occurrences of item id among occs.
Of(id, occs) == LET Is(o) == o.itemId = id IN SelectSeq(occs, Is)

Labels(occs) == [k \in 1..Len(occs) |-> occs[k].label]

\* All occurrences of item id in the datasets, labelled from the English names.
OccurrencesOf(id) ==
  Of(id, ModuleOccurrences(hideoutModules, En) \o ProjectOccurrences(projects, En)
           \o QuestOccurrences(quests, En))

RECURSIVE SumQuantities(_)
SumQuantities(occs) ==
  IF occs = <<>> THEN 0 ELSE Head(occs).quantity + SumQuantities(Tail(occs))

\* The sum of the values of an object of numbers.
RECURSIVE SumValues(_)
SumValues(f) ==
  IF DOMAIN f = {} THEN 0
  ELSE LET k == CHOOSE x \in DOMAIN f : TRUE
       IN  f[k] + SumValues([x \in DOMAIN f \ {k} |-> f[x]])

Range(q) == {q[k] : k \in 1..Len(q)}

\* a is b with some elements left out.
RECURSIVE IsSubSeq(_, _)
IsSubSeq(a, b) ==
  IF a = <<>> THEN TRUE
  ELSE IF b = <<>> THEN FALSE
  ELSE IF Head(a) = Head(b) THEN IsSubSeq(Tail(a), Tail(b))
  ELSE IsSubSeq(a, Tail(b))

\* C13: in every entry of the map buildReferenceCount returns, count is the
\* length of sources.
C13_CountIsLengthOfSources ==
  Built =>
    /\ referenceCounts.threw = "none"
    /\ \A id \in DOMAIN Index : Index[id].count = Len(Index[id].sources)

\* C13 witness: an entry built from two occurrences recorded under the same
\* label.
C13_Witness ==
  /\ Built
  /\ \E id \in DOMAIN Index :
       /\ Index[id].count >= 2
       /\ Cardinality(Range(Index[id].sources)) < Len(Index[id].sources)

\* C14: in every entry of the map buildReferenceCount returns, totalQuantity
\* is the sum of the values of quantityBySource, two occurrences under one label
\* included.
C14_TotalIsSumOfQuantityBySource ==
  Built =>
    \A id \in DOMAIN Index : Index[id].totalQuantity = SumValues(Index[id].quantityBySource)

\* C15: for every item id, count is the number of the id's requirement
\* occurrences in the module levels, the project phases and the quests'
\* requiredItemIds, and totalQuantity the sum of their quantities; a quest
\* without requiredItemIds adds nothing and raises no error.
C15_CountsEveryOccurrence ==
  Built =>
    /\ referenceCounts.threw = "none"
    /\ \A id \in ItemIds :
         /\ Details(Index, id).count = Len(OccurrencesOf(id))
         /\ Details(Index, id).totalQuantity = SumQuantities(OccurrencesOf(id))

\* C16: every occurrence is recorded under the label made of the English
\* names, "<module> (Level <n>)", "<project> (<phase>)" or "<quest> (Quest)":
\* an item's sources are these labels, each a key of quantityBySource; Storage
\* alone gives item-1 the sources "Storage (Level 1)", "Storage (Level 2)" with
\* the quantities 5 and 10.
C16_LabelsFromEnglishNames ==
  Built =>
    /\ \A id \in ItemIds :
         /\ Range(Details(Index, id).sources) = Range(Labels(OccurrencesOf(id)))
         /\ DOMAIN Details(Index, id).quantityBySource = Range(Labels(OccurrencesOf(id)))
    /\ (hideoutModules = <<Storage>> /\ projects = <<>> /\ quests = <<>>) =>
         /\ Details(Index, "item-1").sources = <<"Storage (Level 1)", "Storage (Level 2)">>
         /\ Details(Index, "item-1").quantityBySource =
              ("Storage (Level 1)" :> 5) @@ ("Storage (Level 2)" :> 10)

C18_KeysAreTheRequiredItems ==
  Built =>
    /\ DOMAIN Index = {id \in ItemIds : OccurrencesOf(id) # <<>>}
    /\ \A id \in DOMAIN Index : Index[id].count >= 1
    /\ (hideoutModules = <<>> /\ projects = <<>> /\ quests = <<>>) => DOMAIN Index = {}

\* ------------------------------------------------------- claims: search
\* filterItemsByName has been applied to the items and the query.
Filtered == "filterItemsByName" \in called

NoRequirementDatasets == hideoutModules = <<>> /\ projects = <<>> /\ quests = <<>>

\* The items whose English name contains the query, whatever the case of
\* either, in the order of the items.
NameMatches(its, query) ==
  LET Matches(item) == Includes(ToLowerCase(item.name.en), ToLowerCase(query))
  IN  SelectSeq(its, Matches)

\* C19: for a query that is empty or only whitespace, the search returns the
\* items as they are, in their order, whatever modules, projects and quests
\* there are.
C19_BlankQueryReturnsItems ==
  (Filtered /\ Trim(searchQuery) = <<>>) => filteredItems = Returned(items)

\* C19 witness: a query of three blanks was applied to items with modules,
\* projects and quests at hand.
C19_Witness ==
  /\ Filtered
  /\ searchQuery = <<" ", " ", " ">>
  /\ Len(items) >= 2
  /\ hideoutModules # <<>> /\ projects # <<>> /\ quests # <<>>
  /\ filteredItems = Returned(items)

\* C20: for a query that is not blank and no requirement datasets, the search
\* returns exactly the items whose English name contains the query, whatever
\* the case, in their order: Iron Ore, Steel Bar, Iron Bar and "iron" give
\* item-1 and item-3.
C20_NameMatchesInOrder ==
  (Filtered /\ Trim(searchQuery) # <<>> /\ NoRequirementDatasets) =>
    /\ filteredItems = Returned(NameMatches(items, searchQuery))
    /\ (items = <<IronOre, SteelBar, IronBar>> /\ searchQuery = <<"i", "r", "o", "n">>) =>
         filteredItems = Returned(<<IronOre, IronBar>>)

\* The value filterItemsByName returned, or no items when it threw.
Results == IF filteredItems.threw = "none" THEN filteredItems.value ELSE <<>>

\* Whether the English name, or the English description, of the item contains
\* the query, whatever the case.
NameMatch(item) == Includes(ToLowerCase(item.name.en), ToLowerCase(searchQuery))
DescriptionMatch(item) ==
  Includes(ToLowerCase(item.description.en), ToLowerCase(searchQuery))
DirectMatch(item) == NameMatch(item) \/ DescriptionMatch(item)

\* Whether the item is no direct match and is required by a module, project
\* or quest that matches the query.
IndirectMatch(item) ==
  /\ ~DirectMatch(item)
  /\ item.id \in findItemsRequiredBySource(hideoutModules, projects, quests, searchQuery)

\* How many of the items have the id.
CountOf(id, its) == Cardinality({k \in 1..Len(its) : its[k].id = id})

\* C21: for a query that is not blank the search returns the direct matches
\* followed by the indirect matches: an item that is no direct match and is
\* required by a module, project or quest matching the query is in the result,
\* every direct match comes before every indirect match, and each group is in
\* the order of the items.
C21_DirectThenIndirect ==
  (Filtered /\ Trim(searchQuery) # <<>>) =>
    /\ filteredItems.threw = "none"
    /\ \A k \in 1..Len(items) : IndirectMatch(items[k]) => items[k] \in Range(Results)
    /\ \A i, j \in 1..Len(Results) :
         (IndirectMatch(Results[i]) /\ DirectMatch(Results[j])) => j < i
    /\ IsSubSeq(SelectSeq(Results, DirectMatch), items)
    /\ IsSubSeq(SelectSeq(Results, IndirectMatch), items)

\* C22: an item of the list, its id in it once, that matches the query by its
\* name and is required by a matching module, project or quest is in the
\* result exactly once, with direct matches only before it.
C22_BothMatchesOnce ==
  (Filtered /\ Trim(searchQuery) # <<>>) =>
    \A k \in 1..Len(items) :
      ( /\ NameMatch(items[k])
        /\ CountOf(items[k].id, items) = 1
        /\ items[k].id \in findItemsRequiredBySource(hideoutModules, projects, quests,
                                                     searchQuery) )
      => /\ CountOf(items[k].id, Results) = 1
         /\ \E i \in 1..Len(Results) :
              /\ Results[i] = items[k]
              /\ \A j \in 1..(i - 1) : DirectMatch(Results[j])

\* C23: for a query that is not blank no item id is in the result more than
\* once, even when several items of the list have the id and match.
C23_NoDuplicateIds ==
  (Filtered /\ Trim(searchQuery) # <<>> /\ filteredItems.threw = "none") =>
    \A i, j \in 1..Len(Results) : Results[i].id = Results[j].id => i = j

\* C26: an item whose English name lacks the query and whose English
\* description contains it is in the result, and an item whose name and
\* description both lack it, and which no matching source requires, is not.
C26_DescriptionMatches ==
  (Filtered /\ Trim(searchQuery) # <<>>) =>
    \A k \in 1..Len(items) :
      /\ (~NameMatch(items[k]) /\ DescriptionMatch(items[k]))
           => items[k] \in Range(Results)
      /\ (~DirectMatch(items[k]) /\ ~IndirectMatch(items[k]))
           => items[k] \notin Range(Results)

\* ------------------------------------------- claims: items required by source
\* findItemsRequiredBySource has been applied to the datasets and the query.
Found == "findItemsRequiredBySource" \in called

\* The modules, projects, phases and quests whose name contains the query.
MatchingModules ==
  {m \in 1..Len(hideoutModules) : NameContains(hideoutModules[m].name, searchQuery)}
MatchingProjects ==
  {p \in 1..Len(projects) : NameContains(projects[p].name, searchQuery)}
MatchingPhases ==
  UNION { { <<p, f>> : f \in {g \in 1..Len(projects[p].phases) :
                                NameContains(projects[p].phases[g].name, searchQuery)} } :
          p \in 1..Len(projects) }
MatchingQuests ==
  {q \in 1..Len(quests) : NameContains(quests[q].name, searchQuery)}

\* The ids required by a level of one of the modules ms, by a phase of one of
\* the projects ps, by one of the phases fs, or by one of the quests qs, a
\* quest without required items adding nothing.
RequiredThrough(ms, ps, fs, qs) ==
  { id \in SourceItemIds :
      \/ \E m \in ms : \E l \in 1..Len(hideoutModules[m].levels) :
           id \in RequiredIds(hideoutModules[m].levels[l].requirementItemIds)
      \/ \E p \in ps : \E f \in 1..Len(projects[p].phases) :
           id \in RequiredIds(projects[p].phases[f].requirementItemIds)
      \/ \E pf \in fs :
           id \in RequiredIds(projects[pf[1]].phases[pf[2]].requirementItemIds)
      \/ \E q \in qs :
           /\ quests[q].requiredItemIds.defined
           /\ id \in RequiredIds(quests[q].requiredItemIds.list) }

Applied == "applyFilters" \in called

\* Whether the item satisfies the rarity filter: none is active, or the rarity
\* of the item is set and listed.
SatisfiesRarities(item) ==
  \/ filters.rarities = <<>>
  \/ /\ item.rarity # Undefined
     /\ item.rarity # ""
     /\ item.rarity \in Range(filters.rarities)

\* Whether the item satisfies the type filter: none is active, or the type of
\* the item is listed.
SatisfiesTypes(item) ==
  \/ filters.types = <<>>
  \/ item.type \in Range(filters.types)

\* How many times the item is in the list.
Occurrences(item, its) == Cardinality({k \in 1..Len(its) : its[k] = item})

\* C27: applyFilters returns, in the order of the items, exactly the items
\* that satisfy both filters: an empty list of rarities or of types restricts
\* nothing, a list of rarities keeps the items whose rarity is set and listed,
\* a list of types keeps the items whose type is listed.
C27_BothFiltersInOrder ==
  Applied =>
    /\ IsSubSeq(result, items)
    /\ \A item \in Range(items) \cup Range(result) :
         IF SatisfiesRarities(item) /\ SatisfiesTypes(item)
           THEN Occurrences(item, result) = Occurrences(item, items)
           ELSE Occurrences(item, result) = 0

\* C27 witness: a rarity filter that lists the empty string and a type filter
\* were applied to an item of empty rarity, an item without rarity and an
\* item that satisfies both filters, and only the last is returned.
C27_Witness ==
  /\ Applied
  /\ filters = [rarities |-> <<"", "Common">>, types |-> <<"Tool", "Medical">>]
  /\ items = << FilterItem("5", "", "Tool"), FilterItem("6", Undefined, "Medical"),
                FilterItem("3", "Common", "Tool") >>
  /\ result = << FilterItem("3", "Common", "Tool") >>

\* ---------------------------------------------------------- claims: App mount
\* C30: once the onMount callback has run to its end loading is false, whether
\* loadAllData was fulfilled or rejected; error is set exactly when loadAllData
\* was rejected, and then items are still empty; and no other load was
\* started: loadAllData was called once, fetch once per dataset.
C30_LoadSettlesOnce ==
  onMount = "done" =>
    /\ loading = FALSE
    /\ loadAll.state \in {"fulfilled", "rejected"}
    /\ error # NoError <=> loadAll.state = "rejected"
    /\ loadAll.state = "rejected" => items = <<>>
    /\ ncalls = 1
    /\ \A d \in Datasets : fetchCalls[d] = 1

====
